---- MODULE Spec2Model ----
(***************************************************************************)
(* RepositoriesStore (src/src/shared-process/repositories-store.ts): the   *)
(* store for local repositories on top of three tables of a transactional  *)
(* database: repositories, gitHubRepositories and owners.                  *)
(*                                                                         *)
(* Every public method runs one transaction whose body is a generator:     *)
(* each `yield` of a store primitive is one step of the model.  A running  *)
(* transaction works on its own view of the tables (trans); the committed  *)
(* tables change only when the transaction commits, and the store may      *)
(* reject any primitive, which aborts the transaction.                     *)
(*                                                                         *)
(* Spec runs one caller at a time.  SpecConcurrent adds a second caller    *)
(* (other) whose call interleaves with the first: read-write transactions  *)
(* exclude each other, a read-only one runs on its snapshot.  SpecStored   *)
(* starts from any stored database, dangling references included.          *)
(***************************************************************************)
EXTENDS Integers, Sequences, FiniteSets, TLC

\* ---------------------------------------------------------------- bounds

\* The number of addRepository calls that may run to their last insert: the
\* key generator of the repositories table is capped here.
MaxRepos == 2

\* ---------------------------------------------------------------- values

\* `let ownerID: number = null`: the null of number-typed values.  Generated
\* keys start at 1, so 0 stands for null (both are falsy in the source).
NullID == 0

\* null of object-typed values (a Repository without a GitHubRepository).
NULL == [null |-> TRUE]

\* What `get` and `first` yield when there is no such row.
Undefined == [undefined |-> TRUE]

\* JavaScript truthiness of an object-typed value.
Truthy(v) == v # NULL /\ v # Undefined

\* Logins are sequences of characters, so that case folding is computed.
LowerChar(c) ==
    CASE c = "B" -> "b"
      [] c = "O" -> "o"
      [] c = "A" -> "a"
      [] c = "L" -> "l"
      [] OTHER -> c

Lower(s) == [i \in DOMAIN s |-> LowerChar(s[i])]

\* The comparison of equalsIgnoreCase.
EqualsIgnoreCase(a, b) == Lower(a) = Lower(b)

\* new Owner(login, endpoint)
Owner(login, endpoint) == [login |-> login, endpoint |-> endpoint]

\* new GitHubRepository(name, owner, private, fork, htmlURL)
GitHubRepository(name, owner, private, fork, htmlURL) ==
    [name |-> name, owner |-> owner, private |-> private, fork |-> fork,
     htmlURL |-> htmlURL]

\* new Repository(path, gitHubRepository, id)
Repository(path, gitHubRepository, rid) ==
    [path |-> path, gitHubRepository |-> gitHubRepository, id |-> rid]

\* repo.repositoryWithID(id): the same repository carrying the given id.
RepositoryWithID(r, rid) == Repository(r.path, r.gitHubRepository, rid)

\* The hosted repositories callers pass in: two whose owner logins differ
\* only in case (and whose other fields all differ), and one of another owner.
Bob == GitHubRepository("proj", Owner(<<"b", "o", "b">>, "e1"), FALSE, FALSE, "u1")

BOB == GitHubRepository("lib", Owner(<<"B", "O", "B">>, "e2"), TRUE, FALSE, "u2")

Al == GitHubRepository("proj", Owner(<<"a", "l">>, "e1"), FALSE, TRUE, "u1")

GitHubRepositoryInputs == { Bob, BOB, Al }

\* Arguments of addRepository: a repository that has no id yet, with and
\* without a GitHubRepository.
AddInputs ==
    { Repository("/a", NULL, NullID), Repository("/a", Bob, NullID),
      Repository("/b", Bob, NullID), Repository("/b", BOB, NullID),
      Repository("/a", Al, NullID) }

\* Arguments of updateGitHubRepository: any id, of a row or not.
UpdateInputs ==
    { Repository("/a", g, i) : g \in GitHubRepositoryInputs \cup {NULL},
                               i \in 0 .. MaxRepos }

\* ------------------------------------------------------- store primitives

\* A table: its rows by primary key, and its key generator.
EmptyTable == [rows |-> <<>>, next |-> 1]

Keys(table) == DOMAIN table.rows

\* The row stored under `key` as the program sees it: with its `id`.
RowAt(table, key) == [id |-> key] @@ table.rows[key]

\* table.get(key)
Get(table, key) ==
    IF key \in Keys(table) THEN RowAt(table, key) ELSE Undefined

WithRow(table, key, row) ==
    [k \in Keys(table) \cup {key} |-> IF k = key THEN row ELSE table.rows[k]]

\* table.add(row): the key the add generates, and the table after it.
AddKey(table) == table.next

Add(table, row) ==
    [rows |-> WithRow(table, table.next, row), next |-> table.next + 1]

\* table.put(row, key): insert or replace at `key`; an insert under a
\* generated key when no key is given.
Put(table, row, key) ==
    IF key = NullID
    THEN Add(table, row)
    ELSE [rows |-> WithRow(table, key, row),
          next |-> IF key >= table.next THEN key + 1 ELSE table.next]

\* table.toArray(): the rows in primary key order.
ToArray(table) ==
    LET ks == SelectSeq([k \in 1 .. table.next - 1 |-> k],
                        LAMBDA k : k \in Keys(table))
    IN  [i \in 1 .. Len(ks) |-> RowAt(table, ks[i])]

\* owners.where('login').equalsIgnoreCase(login): the rows that match.
WhereLoginEqualsIgnoreCase(table, login) ==
    { RowAt(table, k) : k \in { j \in Keys(table) :
                                  EqualsIgnoreCase(table.rows[j].login, login) } }

\* ------------------------------------------------------------------ state

VARIABLES
    owners,               \* committed table db.owners
    gitHubRepositories,   \* committed table db.gitHubRepositories
    repositories,         \* committed table db.repositories
    trans,                \* the running transaction's view of the tables
    pc,                   \* the yield the running method is at, or "idle"
    op,                   \* the method called last
    repo,                 \* its argument
    before,               \* the committed tables when it was called
    ownerID,              \* local of addRepository / updateGitHubRepository
    gitHubRepositoryID,   \* local of addRepository
    id,                   \* local of addRepository
    localRepo,            \* local of updateGitHubRepository
    existingGitHubRepo,   \* local of updateGitHubRepository
    repos,                \* local of getRepositories
    idx,                  \* position of the for loop of getRepositories
    gitHubRepository,     \* local of getRepositories
    inflatedRepos,        \* local of getRepositories
    outcome,              \* how the last call ended
    returned,             \* what the last call returned
    other                 \* the call of a second caller, while not in focus

tables == <<owners, gitHubRepositories, repositories>>
\* What a step of a running method leaves alone: its call, and the call of
\* the other caller.
call == <<op, repo, before, other>>
addLocals == <<gitHubRepositoryID, id>>
updateLocals == <<localRepo, existingGitHubRepo>>
getLocals == <<repos, idx, gitHubRepository, inflatedRepos>>
result == <<outcome, returned>>
vars == <<owners, gitHubRepositories, repositories, trans, pc, op, repo, before, ownerID,
          gitHubRepositoryID, id, localRepo, existingGitHubRepo, repos, idx,
          gitHubRepository, inflatedRepos, outcome, returned, other>>

NoTrans == [active |-> FALSE]

\* The three committed tables as one value.
Snapshot ==
    [owners |-> owners, gitHubRepositories |-> gitHubRepositories,
     repositories |-> repositories]

NoOutcome == [status |-> "none", error |-> "none", at |-> "idle"]

Committed == [status |-> "committed", error |-> "none", at |-> "idle"]

Aborted(error, at) == [status |-> "aborted", error |-> error, at |-> at]

\* The call of a caller that has called nothing yet.
NoCall ==
    [trans |-> NoTrans, pc |-> "idle", op |-> "none", repo |-> NULL,
     before |-> [owners |-> EmptyTable, gitHubRepositories |-> EmptyTable,
                 repositories |-> EmptyTable],
     ownerID |-> NullID, gitHubRepositoryID |-> NullID, id |-> NullID,
     localRepo |-> Undefined, existingGitHubRepo |-> Undefined, repos |-> <<>>,
     idx |-> 0, gitHubRepository |-> Undefined, inflatedRepos |-> <<>>,
     outcome |-> NoOutcome, returned |-> NULL]

\* The call in focus as one value.
ThisCall ==
    [trans |-> trans, pc |-> pc, op |-> op, repo |-> repo, before |-> before,
     ownerID |-> ownerID, gitHubRepositoryID |-> gitHubRepositoryID, id |-> id,
     localRepo |-> localRepo, existingGitHubRepo |-> existingGitHubRepo,
     repos |-> repos, idx |-> idx, gitHubRepository |-> gitHubRepository,
     inflatedRepos |-> inflatedRepos, outcome |-> outcome, returned |-> returned]

\* The mode each method opens its transaction in, over all three tables.
Mode(method) == IF method = "getRepositories" THEN "r" ELSE "rw"

\* The locals of a method that is not running.
ResetLocals ==
    /\ ownerID' = NullID
    /\ gitHubRepositoryID' = NullID
    /\ id' = NullID
    /\ localRepo' = Undefined
    /\ existingGitHubRepo' = Undefined
    /\ repos' = <<>>
    /\ idx' = 0
    /\ gitHubRepository' = Undefined
    /\ inflatedRepos' = <<>>

Init ==
    /\ owners = EmptyTable
    /\ gitHubRepositories = EmptyTable
    /\ repositories = EmptyTable
    /\ trans = NoTrans
    /\ pc = "idle"
    /\ op = "none"
    /\ repo = NULL
    /\ before = Snapshot
    /\ ownerID = NullID
    /\ gitHubRepositoryID = NullID
    /\ id = NullID
    /\ localRepo = Undefined
    /\ existingGitHubRepo = Undefined
    /\ repos = <<>>
    /\ idx = 0
    /\ gitHubRepository = Undefined
    /\ inflatedRepos = <<>>
    /\ outcome = NoOutcome
    /\ returned = NULL
    /\ other = NoCall

\* ------------------------------------------------------------ transactions

\* db.transaction(mode, repositories, gitHubRepositories, owners, body): the
\* body starts on the committed tables.
\* Mutant: the store starts a transaction whatever else is running.
MayStart_always(method) == TRUE

\* Whether the store lets a transaction of the method start now: read-write
\* transactions over the same tables run one at a time; a read-only one runs
\* on the tables as they are when it starts, next to whatever else runs.
MayStart(method) ==
    \/ other.pc = "idle"
    \/ Mode(method) = "r"
    \/ Mode(other.op) = "r"

Begin(method, argument, first) ==
    /\ pc = "idle"
    /\ MayStart(method)
    /\ trans' = Snapshot
    /\ pc' = first
    /\ op' = method
    /\ repo' = argument
    /\ before' = Snapshot
    /\ UNCHANGED other
    /\ outcome' = NoOutcome
    /\ returned' = NULL
    /\ ResetLocals
    /\ UNCHANGED tables

\* The transaction fails: its writes are dropped, the awaited promise
\* rejects and the method returns nothing.
Abort(error) ==
    /\ trans' = NoTrans
    /\ outcome' = Aborted(error, pc)
    /\ pc' = "idle"
    /\ returned' = NULL
    /\ ResetLocals
    /\ UNCHANGED <<tables, call>>

\* The body has run to its end: the transaction's writes become the tables
\* (a read-only transaction has none).
Commit(value) ==
    /\ IF Mode(op) = "r"
       THEN UNCHANGED tables
       ELSE /\ owners' = trans.owners
            /\ gitHubRepositories' = trans.gitHubRepositories
            /\ repositories' = trans.repositories
    /\ trans' = NoTrans
    /\ outcome' = Committed
    /\ pc' = "idle"
    /\ returned' = value
    /\ ResetLocals
    /\ UNCHANGED call

\* The store rejects the primitive the running method waits for.
StoreFails ==
    /\ pc # "idle"
    /\ Abort("StoreError")

\* ------------------------------------------------------------ addRepository

\* Mutant: the lookup compares logins exactly (equals for equalsIgnoreCase).
ExistingOwners_equals(login) ==
    { RowAt(trans.owners, k) :
        k \in { j \in Keys(trans.owners) : trans.owners.rows[j].login = login } }

\* db.owners.where('login').equalsIgnoreCase(login).limit(1).first(): the
\* candidates for existingOwner; none when the set is empty.
ExistingOwners(login) == WhereLoginEqualsIgnoreCase(trans.owners, login)

\* {login, endpoint: gitHubRepository.getOwner().getEndpoint()}
OwnerRow(owner) == [login |-> owner.login, endpoint |-> owner.endpoint]

\* The row addRepository adds to gitHubRepositories.
GitHubRepositoryRow(g, oid) ==
    [name |-> g.name, ownerID |-> oid, private |-> g.private, fork |-> g.fork,
     htmlURL |-> g.htmlURL]

\* Mutant: gitHubRepositoryID is not reset per call; without a hosted
\* repository the row gets the key of the gitHubRepositories row added last.
RepositoryRow_staleID(r, ghid) ==
    [path |-> r.path,
     gitHubRepositoryID |->
         IF ghid = NullID THEN AddKey(trans.gitHubRepositories) - 1 ELSE ghid]

\* {path: repo.getPath(), gitHubRepositoryID}
RepositoryRow(r, ghid) == [path |-> r.path, gitHubRepositoryID |-> ghid]

\* The call: the transaction starts and the body runs to its first yield.
addRepository(r) ==
    /\ repositories.next <= MaxRepos
    /\ Begin("addRepository", r,
             IF Truthy(r.gitHubRepository) THEN "add_56" ELSE "add_73")

\* Mutant: the dedup step is missing; an owner is always added.
addRepository_56_noLookup ==
    /\ pc = "add_56"
    /\ pc' = "add_61"
    /\ UNCHANGED <<tables, trans, call, ownerID, addLocals, updateLocals, getLocals,
                   result>>

\* The owner lookup, and the branch on existingOwner.
addRepository_56 ==
    /\ pc = "add_56"
    /\ LET existing == ExistingOwners(repo.gitHubRepository.owner.login)
       IN  IF existing = {}
           THEN /\ pc' = "add_61"
                /\ UNCHANGED ownerID
           ELSE /\ \E existingOwner \in existing : ownerID' = existingOwner.id
                /\ pc' = "add_64"
    /\ UNCHANGED <<tables, trans, call, addLocals, updateLocals, getLocals, result>>

\* Mutant: the owner is added outside the transaction, straight into the
\* committed table.
addRepository_61_outsideTransaction ==
    /\ pc = "add_61"
    /\ ownerID' = AddKey(trans.owners)
    /\ trans' = [trans EXCEPT !.owners = Add(@, OwnerRow(repo.gitHubRepository.owner))]
    /\ owners' = Add(owners, OwnerRow(repo.gitHubRepository.owner))
    /\ pc' = "add_64"
    /\ UNCHANGED <<gitHubRepositories, repositories, call, addLocals, updateLocals,
                   getLocals, result>>

\* ownerID = yield db.owners.add(...)
addRepository_61 ==
    /\ pc = "add_61"
    /\ ownerID' = AddKey(trans.owners)
    /\ trans' = [trans EXCEPT !.owners = Add(@, OwnerRow(repo.gitHubRepository.owner))]
    /\ pc' = "add_64"
    /\ UNCHANGED <<tables, call, addLocals, updateLocals, getLocals, result>>

\* Mutant: the id kept is the key generator's value after the add, one past
\* the key of the row added.
addRepository_64_keyAfterAdd ==
    /\ pc = "add_64"
    /\ gitHubRepositoryID' = AddKey(trans.gitHubRepositories) + 1
    /\ trans' = [trans EXCEPT !.gitHubRepositories =
                     Add(@, GitHubRepositoryRow(repo.gitHubRepository, ownerID))]
    /\ pc' = "add_73"
    /\ UNCHANGED <<tables, call, ownerID, id, updateLocals, getLocals, result>>

\* gitHubRepositoryID = yield db.gitHubRepositories.add(...)
addRepository_64 ==
    /\ pc = "add_64"
    /\ gitHubRepositoryID' = AddKey(trans.gitHubRepositories)
    /\ trans' = [trans EXCEPT !.gitHubRepositories =
                     Add(@, GitHubRepositoryRow(repo.gitHubRepository, ownerID))]
    /\ pc' = "add_73"
    /\ UNCHANGED <<tables, call, ownerID, id, updateLocals, getLocals, result>>

\* Mutant: a row that has the path already is replaced in place (a merge on
\* path) instead of a new row being added.
addRepository_73_mergeOnPath ==
    /\ pc = "add_73"
    /\ LET same == { k \in Keys(trans.repositories) :
                       trans.repositories.rows[k].path = repo.path }
           key  == IF same = {} THEN AddKey(trans.repositories)
                   ELSE CHOOSE k \in same : TRUE
       IN  /\ id' = key
           /\ trans' = [trans EXCEPT !.repositories =
                            Put(@, RepositoryRow(repo, gitHubRepositoryID), key)]
    /\ pc' = "add_79"
    /\ UNCHANGED <<tables, call, ownerID, gitHubRepositoryID, updateLocals,
                   getLocals, result>>

\* id = yield db.repositories.add(...)
addRepository_73 ==
    /\ pc = "add_73"
    /\ id' = AddKey(trans.repositories)
    /\ trans' = [trans EXCEPT !.repositories =
                     Add(@, RepositoryRow(repo, gitHubRepositoryID))]
    /\ pc' = "add_79"
    /\ UNCHANGED <<tables, call, ownerID, gitHubRepositoryID, updateLocals,
                   getLocals, result>>

\* return repo.repositoryWithID(id)
AddReturn(r, rid) == RepositoryWithID(r, rid)

\* await transaction; return repo.repositoryWithID(id)
addRepository_79 ==
    /\ pc = "add_79"
    /\ Commit(AddReturn(repo, id))

\* --------------------------------------------------- updateGitHubRepository

\* Mutant: the resolved ownerID is left out of the object that is put.
Info_withoutOwnerID(g, oid) ==
    [private |-> g.private, fork |-> g.fork, htmlURL |-> g.htmlURL,
     name |-> g.name, ownerID |-> NullID]

\* The object put into gitHubRepositories.
Info(g, oid) ==
    [private |-> g.private, fork |-> g.fork, htmlURL |-> g.htmlURL,
     name |-> g.name, ownerID |-> oid]

\* Mutant: the put is given no key.
InfoKey_null(existing) == NullID

\* existingGitHubRepo ? existingGitHubRepo.id : null
InfoKey(existing) == IF Truthy(existing) THEN existing.id ELSE NullID

updateGitHubRepository(r) ==
    Begin("updateGitHubRepository", r, "update_87")

\* localRepo = yield db.repositories.get(repository.getID()); then
\* localRepo.gitHubRepositoryID is read, which throws on no row.
updateGitHubRepository_87 ==
    /\ pc = "update_87"
    /\ LET row == Get(trans.repositories, repo.id)
       IN  IF row = Undefined
           THEN Abort("TypeError")
           ELSE /\ localRepo' = row
                /\ pc' = "update_89"
                /\ UNCHANGED <<tables, trans, call, ownerID, addLocals,
                               existingGitHubRepo, getLocals, result>>

\* existingGitHubRepo = yield db.gitHubRepositories.get(...); then
\* `let ownerID = existingGitHubRepo.ownerID` throws on no row, and building
\* info throws when the argument carries no GitHubRepository.
updateGitHubRepository_89 ==
    /\ pc = "update_89"
    /\ LET existing == Get(trans.gitHubRepositories, localRepo.gitHubRepositoryID)
       IN  IF existing = Undefined
           THEN Abort("TypeError")
           ELSE IF ~Truthy(repo.gitHubRepository)
           THEN Abort("TypeError")
           ELSE /\ existingGitHubRepo' = existing
                /\ ownerID' = existing.ownerID
                /\ pc' = "update_103"
                /\ UNCHANGED <<tables, trans, call, addLocals, localRepo,
                               getLocals, result>>

\* Mutant: the put goes outside the transaction, straight into the
\* committed table.
updateGitHubRepository_103_outsideTransaction ==
    /\ pc = "update_103"
    /\ trans' = [trans EXCEPT !.gitHubRepositories =
                     Put(@, Info(repo.gitHubRepository, ownerID),
                         InfoKey(existingGitHubRepo))]
    /\ gitHubRepositories' = Put(gitHubRepositories,
                                 Info(repo.gitHubRepository, ownerID),
                                 InfoKey(existingGitHubRepo))
    /\ pc' = "update_106"
    /\ UNCHANGED <<owners, repositories, call, ownerID, addLocals, updateLocals,
                   getLocals, result>>

\* Mutant: the update also puts the argument's repositories row back, path
\* included.
updateGitHubRepository_103_putsRepository ==
    /\ pc = "update_103"
    /\ trans' = [trans EXCEPT
                   !.gitHubRepositories =
                       Put(@, Info(repo.gitHubRepository, ownerID),
                           InfoKey(existingGitHubRepo)),
                   !.repositories =
                       Put(@, [path |-> repo.path,
                               gitHubRepositoryID |-> InfoKey(existingGitHubRepo)],
                           repo.id)]
    /\ pc' = "update_106"
    /\ UNCHANGED <<tables, call, ownerID, addLocals, updateLocals, getLocals, result>>

\* Mutant: the owner is always taken from the argument: a new Owner row is
\* added and the row put references it.
updateGitHubRepository_103_ownerFromArgument ==
    /\ pc = "update_103"
    /\ ownerID' = AddKey(trans.owners)
    /\ trans' = [trans EXCEPT
                   !.owners = Add(@, OwnerRow(repo.gitHubRepository.owner)),
                   !.gitHubRepositories =
                       Put(@, Info(repo.gitHubRepository, AddKey(trans.owners)),
                           InfoKey(existingGitHubRepo))]
    /\ pc' = "update_106"
    /\ UNCHANGED <<tables, call, addLocals, updateLocals, getLocals, result>>

\* if (!existingGitHubRepo) ownerID = yield db.owners.add(...); then
\* yield db.gitHubRepositories.put(info, key)
updateGitHubRepository_103 ==
    /\ pc = "update_103"
    /\ LET addOwner == ~Truthy(existingGitHubRepo)
           oid      == IF addOwner THEN AddKey(trans.owners) ELSE ownerID
           towners  == IF addOwner
                       THEN Add(trans.owners, OwnerRow(repo.gitHubRepository.owner))
                       ELSE trans.owners
       IN  /\ ownerID' = oid
           /\ trans' = [trans EXCEPT
                          !.owners = towners,
                          !.gitHubRepositories =
                              Put(@, Info(repo.gitHubRepository, oid),
                                  InfoKey(existingGitHubRepo))]
    /\ pc' = "update_106"
    /\ UNCHANGED <<tables, call, addLocals, updateLocals, getLocals, result>>

\* await transaction
updateGitHubRepository_106 ==
    /\ pc = "update_106"
    /\ Commit(NULL)

\* ---------------------------------------------------------- getRepositories

\* Mutant: private and fork change places in the constructor call.
Inflate_forkForPrivate(row, g, owner) ==
    Repository(row.path,
               GitHubRepository(g.name, Owner(owner.login, owner.endpoint),
                                g.fork, g.private, g.htmlURL),
               row.id)

\* new Repository(repo.path, gitHubRepo, repo.id) of a row with its
\* gitHubRepositories row and that row's owner.
Inflate(row, g, owner) ==
    Repository(row.path,
               GitHubRepository(g.name, Owner(owner.login, owner.endpoint),
                                g.private, g.fork, g.htmlURL),
               row.id)

\* new Repository(repo.path, null, repo.id)
InflateBare(row) == Repository(row.path, NULL, row.id)

getRepositories ==
    Begin("getRepositories", NULL, "get_27")

\* repos = yield db.repositories.toArray()
getRepositories_27 ==
    /\ pc = "get_27"
    /\ repos' = ToArray(trans.repositories)
    /\ idx' = 1
    /\ pc' = "get_28"
    /\ UNCHANGED <<tables, trans, call, ownerID, addLocals, updateLocals,
                   gitHubRepository, inflatedRepos, result>>

\* Mutant: the test of gitHubRepositoryID is missing; every row takes the
\* branch that fetches its hosted repository.
getRepositories_28_alwaysFetches ==
    /\ pc = "get_28"
    /\ pc' = IF idx > Len(repos) THEN "get_42" ELSE "get_31"
    /\ UNCHANGED <<tables, trans, call, ownerID, addLocals, updateLocals, getLocals,
                   result>>

\* for (const repo of repos): the head of one iteration.  A row without
\* gitHubRepositoryID is inflated at once; the end of the loop ends the body.
getRepositories_28 ==
    /\ pc = "get_28"
    /\ IF idx > Len(repos)
       THEN /\ pc' = "get_42"
            /\ UNCHANGED <<idx, inflatedRepos>>
       ELSE IF repos[idx].gitHubRepositoryID # NullID
       THEN /\ pc' = "get_31"
            /\ UNCHANGED <<idx, inflatedRepos>>
       ELSE /\ inflatedRepos' = Append(inflatedRepos, InflateBare(repos[idx]))
            /\ idx' = idx + 1
            /\ pc' = "get_28"
    /\ UNCHANGED <<tables, trans, call, ownerID, addLocals, updateLocals, repos,
                   gitHubRepository, result>>

\* Mutant: a row whose hosted repository is missing is skipped.
getRepositories_31_skipsMissing ==
    /\ pc = "get_31"
    /\ LET g == Get(trans.gitHubRepositories, repos[idx].gitHubRepositoryID)
       IN  IF g = Undefined
           THEN /\ idx' = idx + 1
                /\ pc' = "get_28"
                /\ UNCHANGED gitHubRepository
           ELSE /\ gitHubRepository' = g
                /\ pc' = "get_32"
                /\ UNCHANGED idx
    /\ UNCHANGED <<tables, trans, call, ownerID, addLocals, updateLocals, repos,
                   inflatedRepos, result>>

\* Mutant: the get runs outside the transaction (an await for the yield, see
\* the note at the head of the source file) and reads the committed table.
getRepositories_31_outsideTransaction ==
    /\ pc = "get_31"
    /\ LET g == Get(gitHubRepositories, repos[idx].gitHubRepositoryID)
       IN  IF g = Undefined
           THEN Abort("TypeError")
           ELSE /\ gitHubRepository' = g
                /\ pc' = "get_32"
                /\ UNCHANGED <<tables, trans, call, ownerID, addLocals,
                               updateLocals, repos, idx, inflatedRepos, result>>

\* gitHubRepository = yield db.gitHubRepositories.get(repo.gitHubRepositoryID);
\* then gitHubRepository.ownerID is read, which throws on no row.
getRepositories_31 ==
    /\ pc = "get_31"
    /\ LET g == Get(trans.gitHubRepositories, repos[idx].gitHubRepositoryID)
       IN  IF g = Undefined
           THEN Abort("TypeError")
           ELSE /\ gitHubRepository' = g
                /\ pc' = "get_32"
                /\ UNCHANGED <<tables, trans, call, ownerID, addLocals,
                               updateLocals, repos, idx, inflatedRepos, result>>

\* owner = yield db.owners.get(gitHubRepository.ownerID); then owner.login is
\* read, which throws on no row, and the inflated repository is pushed.
getRepositories_32 ==
    /\ pc = "get_32"
    /\ LET owner == Get(trans.owners, gitHubRepository.ownerID)
       IN  IF owner = Undefined
           THEN Abort("TypeError")
           ELSE /\ inflatedRepos' =
                      Append(inflatedRepos, Inflate(repos[idx], gitHubRepository, owner))
                /\ idx' = idx + 1
                /\ gitHubRepository' = Undefined
                /\ pc' = "get_28"
                /\ UNCHANGED <<tables, trans, call, ownerID, addLocals,
                               updateLocals, repos, result>>

\* await transaction; return inflatedRepos
getRepositories_42 ==
    /\ pc = "get_42"
    /\ Commit(inflatedRepos)

\* ------------------------------------------------------------ specification

Next ==
    \/ \E r \in AddInputs : addRepository(r)
    \/ addRepository_56
    \/ addRepository_61
    \/ addRepository_64
    \/ addRepository_73
    \/ addRepository_79
    \/ \E r \in UpdateInputs : updateGitHubRepository(r)
    \/ updateGitHubRepository_87
    \/ updateGitHubRepository_89
    \/ updateGitHubRepository_103
    \/ updateGitHubRepository_106
    \/ getRepositories
    \/ getRepositories_27
    \/ getRepositories_28
    \/ getRepositories_31
    \/ getRepositories_32
    \/ getRepositories_42
    \/ StoreFails

Spec == Init /\ [][Next]_vars

\* ------------------------------------------------------------ two callers

\* Control passes from one caller to the other: at a yield, or between calls.
Switch ==
    /\ other' = ThisCall
    /\ trans' = other.trans
    /\ pc' = other.pc
    /\ op' = other.op
    /\ repo' = other.repo
    /\ before' = other.before
    /\ ownerID' = other.ownerID
    /\ gitHubRepositoryID' = other.gitHubRepositoryID
    /\ id' = other.id
    /\ localRepo' = other.localRepo
    /\ existingGitHubRepo' = other.existingGitHubRepo
    /\ repos' = other.repos
    /\ idx' = other.idx
    /\ gitHubRepository' = other.gitHubRepository
    /\ inflatedRepos' = other.inflatedRepos
    /\ outcome' = other.outcome
    /\ returned' = other.returned
    /\ UNCHANGED tables

\* What the two callers pass in: repositories whose owner logins differ only
\* in case, and updates of the first row to a repository of another owner and
\* to one of the same owner under another endpoint.
ConcurrentAddInputs == { Repository("/b", Bob, NullID), Repository("/b", BOB, NullID) }

ConcurrentUpdateInputs == { Repository("/b", Al, 1), Repository("/b", BOB, 1) }

NextConcurrent ==
    \/ \E r \in ConcurrentAddInputs : addRepository(r)
    \/ addRepository_56
    \/ addRepository_61
    \/ addRepository_64
    \/ addRepository_73
    \/ addRepository_79
    \/ \E r \in ConcurrentUpdateInputs : updateGitHubRepository(r)
    \/ updateGitHubRepository_87
    \/ updateGitHubRepository_89
    \/ updateGitHubRepository_103
    \/ updateGitHubRepository_106
    \/ getRepositories
    \/ getRepositories_27
    \/ getRepositories_28
    \/ getRepositories_31
    \/ getRepositories_32
    \/ getRepositories_42
    \/ StoreFails
    \/ Switch

SpecConcurrent == Init /\ [][NextConcurrent]_vars

\* --------------------------------------------- a database as found on disk

\* The store is constructed on a database that exists already; what it holds
\* need not have been written by this store.  Tables of up to MaxRepos rows
\* whose references may point at rows that are not there.
StoredKeySets == SUBSET (1 .. MaxRepos)

StoredTable(rows) == [rows |-> rows, next |-> MaxRepos + 1]

StoredOwners ==
    { StoredTable([k \in ks |-> OwnerRow(Bob.owner)]) : ks \in StoredKeySets }

StoredGitHubRepositories ==
    UNION { { StoredTable([k \in ks |-> GitHubRepositoryRow(Bob, oid[k])]) :
                oid \in [ks -> 1 .. MaxRepos] } : ks \in StoredKeySets }

StoredRepositories ==
    UNION { { StoredTable([k \in 1 .. n |-> [path |-> "/a", gitHubRepositoryID |-> g[k]]]) :
                g \in [1 .. n -> 0 .. MaxRepos] } : n \in 0 .. MaxRepos }

InitStored ==
    /\ owners \in StoredOwners
    /\ gitHubRepositories \in StoredGitHubRepositories
    /\ repositories \in StoredRepositories
    /\ trans = NoTrans
    /\ pc = "idle"
    /\ op = "none"
    /\ repo = NULL
    /\ before = Snapshot
    /\ ownerID = NullID
    /\ gitHubRepositoryID = NullID
    /\ id = NullID
    /\ localRepo = Undefined
    /\ existingGitHubRepo = Undefined
    /\ repos = <<>>
    /\ idx = 0
    /\ gitHubRepository = Undefined
    /\ inflatedRepos = <<>>
    /\ outcome = NoOutcome
    /\ returned = NULL
    /\ other = NoCall

NextStored ==
    \/ getRepositories
    \/ getRepositories_27
    \/ getRepositories_28
    \/ getRepositories_31
    \/ getRepositories_32
    \/ getRepositories_42
    \/ StoreFails

SpecStored == InitStored /\ [][NextStored]_vars

\* ------------------------------------------------------------------ claims

Linked(rows, k) == rows[k].gitHubRepositoryID # NullID

Ended == pc = "idle" /\ outcome.status # "none"

EndedCommitted(method) == pc = "idle" /\ op = method /\ outcome.status = "committed"

EndedAborted(method) == pc = "idle" /\ op = method /\ outcome.status = "aborted"

\* C1: when the transaction of addRepository aborts, at whichever step, the
\* three committed tables are exactly what they were before the call.
C1_AddAbortLeavesNoRows ==
    EndedAborted("addRepository") => Snapshot = before

\* C1 witness: the store failed after the Owner insert and before the
\* HostedRepository insert, in a call that had to insert its owner.
C1_Witness ==
    /\ EndedAborted("addRepository")
    /\ outcome.at = "add_64"
    /\ outcome.error = "StoreError"
    /\ WhereLoginEqualsIgnoreCase(before.owners, repo.gitHubRepository.owner.login) = {}

\* C2: the committed owners table holds at most one row per case-insensitive
\* login, whatever calls have committed or aborted.
C2_OneOwnerPerLogin ==
    \A j, k \in Keys(owners) :
        EqualsIgnoreCase(owners.rows[j].login, owners.rows[k].login) => j = k

\* C2 witness: two hosted repositories have been added and an update has
\* committed, and one Owner row serves both.
C2_Witness ==
    /\ EndedCommitted("updateGitHubRepository")
    /\ Cardinality(Keys(gitHubRepositories)) = 2
    /\ Cardinality(Keys(owners)) = 1
    /\ ~EqualsIgnoreCase(repo.gitHubRepository.owner.login, owners.rows[1].login)

\* C3: every row of repositories has a gitHubRepositoryID that is null or
\* the key of a row of gitHubRepositories.
C3_RepositoryPointsToRow ==
    \A k \in Keys(repositories) :
        Linked(repositories.rows, k) =>
            repositories.rows[k].gitHubRepositoryID \in Keys(gitHubRepositories)

\* C3 witness: a linked row and a bare row side by side, after an update.
C3_Witness ==
    /\ EndedCommitted("updateGitHubRepository")
    /\ \E k \in Keys(repositories) : Linked(repositories.rows, k)
    /\ \E k \in Keys(repositories) : ~Linked(repositories.rows, k)

\* C4: every row of gitHubRepositories has an ownerID that is the key of a
\* row of owners.
C4_GitHubRepositoryPointsToOwner ==
    \A k \in Keys(gitHubRepositories) :
        gitHubRepositories.rows[k].ownerID \in Keys(owners)

\* C4 witness: an update has replaced a row while two owners exist.
C4_Witness ==
    /\ EndedCommitted("updateGitHubRepository")
    /\ Cardinality(Keys(owners)) = 2
    /\ gitHubRepositories # before.gitHubRepositories

\* The key of the gitHubRepositories row a committed addRepository added.
AddedGitHubRepositoryKey == AddKey(before.gitHubRepositories)

\* C5: addRepository with a hosted repository whose owner login equals,
\* ignoring case, the login of an Owner row already there inserts no Owner
\* row, and the new gitHubRepositories row references that existing row.
C5_AddReusesOwner ==
    (/\ EndedCommitted("addRepository")
     /\ Truthy(repo.gitHubRepository))
    => \A o \in WhereLoginEqualsIgnoreCase(before.owners,
                                           repo.gitHubRepository.owner.login) :
           /\ owners = before.owners
           /\ AddedGitHubRepositoryKey \in Keys(gitHubRepositories)
           /\ AddedGitHubRepositoryKey \notin Keys(before.gitHubRepositories)
           /\ gitHubRepositories.rows[AddedGitHubRepositoryKey].ownerID = o.id

\* C5 witness: two repositories added whose owner logins differ only in
\* case: one Owner row, referenced by both gitHubRepositories rows.
C5_Witness ==
    /\ EndedCommitted("addRepository")
    /\ Truthy(repo.gitHubRepository)
    /\ Cardinality(Keys(owners)) = 1
    /\ Cardinality(Keys(gitHubRepositories)) = 2
    /\ \A k \in Keys(gitHubRepositories) : gitHubRepositories.rows[k].ownerID = 1
    /\ repo.gitHubRepository.owner.login # owners.rows[1].login
    /\ EqualsIgnoreCase(repo.gitHubRepository.owner.login, owners.rows[1].login)

\* Whether the inflated repository r carries exactly the fields of the
\* gitHubRepositories row g and of the owners row o.
MatchesRows(r, g, o) ==
    /\ Truthy(r.gitHubRepository)
    /\ r.gitHubRepository.name = g.name
    /\ r.gitHubRepository.private = g.private
    /\ r.gitHubRepository.fork = g.fork
    /\ r.gitHubRepository.htmlURL = g.htmlURL
    /\ r.gitHubRepository.owner.login = o.login
    /\ r.gitHubRepository.owner.endpoint = o.endpoint

\* C6: getRepositories returns, for every repositories row that references a
\* gitHubRepositories row (each such row was added by an addRepository that
\* returned its id), a Repository with that id and path whose name, private,
\* fork and htmlURL are those of the referenced row and whose owner login and
\* endpoint are those of the Owner row it references.
C6_ListReturnsReferencedRows ==
    EndedCommitted("getRepositories") =>
        \A k \in Keys(repositories) :
            Linked(repositories.rows, k) =>
                \E i \in DOMAIN returned :
                    LET g == gitHubRepositories.rows[repositories.rows[k].gitHubRepositoryID]
                    IN  /\ returned[i].id = k
                        /\ returned[i].path = repositories.rows[k].path
                        /\ MatchesRows(returned[i], g, owners.rows[g.ownerID])

\* C6 witness: a list of two repositories of different owners, one of them a
\* fork.
C6_Witness ==
    /\ EndedCommitted("getRepositories")
    /\ Len(returned) = 2
    /\ Truthy(returned[1].gitHubRepository)
    /\ Truthy(returned[2].gitHubRepository)
    /\ returned[1].gitHubRepository.owner # returned[2].gitHubRepository.owner
    /\ \E i \in 1 .. 2 : returned[i].gitHubRepository.fork

\* C7: a committed addRepository leaves the rows that were there as they
\* were, adds exactly one row, under an id no row had, holding the input's
\* path, and returns the input carrying that id.
C7_AddInsertsOneNewRow ==
    EndedCommitted("addRepository") =>
        /\ returned = Repository(repo.path, repo.gitHubRepository, returned.id)
        /\ returned.id # NullID
        /\ returned.id \notin Keys(before.repositories)
        /\ Keys(repositories) = Keys(before.repositories) \cup {returned.id}
        /\ \A k \in Keys(before.repositories) :
               repositories.rows[k] = before.repositories.rows[k]
        /\ repositories.rows[returned.id].path = repo.path

\* C7 witness: two calls with equal path and equal hosted data have made two
\* rows with two ids, each with a gitHubRepositories row of its own.
C7_Witness ==
    /\ EndedCommitted("addRepository")
    /\ Keys(repositories) = {1, 2}
    /\ repositories.rows[1].path = repositories.rows[2].path
    /\ Linked(repositories.rows, 1)
    /\ Linked(repositories.rows, 2)
    /\ repositories.rows[1].gitHubRepositoryID # repositories.rows[2].gitHubRepositoryID
    /\ gitHubRepositories.rows[repositories.rows[1].gitHubRepositoryID]
         = gitHubRepositories.rows[repositories.rows[2].gitHubRepositoryID]

\* The key of the gitHubRepositories row the repository of the last call
\* referenced when the call was made (NullID: none, or no such repository).
TargetKey ==
    IF repo.id \in Keys(before.repositories)
    THEN before.repositories.rows[repo.id].gitHubRepositoryID
    ELSE NullID

\* C8: a committed updateGitHubRepository on a repository whose row references
\* an existing gitHubRepositories row leaves that row under the same key with
\* the input's name, private, fork and htmlURL and the ownerID it had, and
\* the table has the keys it had.
C8_UpdateReplacesInPlace ==
    (/\ EndedCommitted("updateGitHubRepository")
     /\ TargetKey \in Keys(before.gitHubRepositories))
    => /\ Keys(gitHubRepositories) = Keys(before.gitHubRepositories)
       /\ gitHubRepositories.rows[TargetKey].name = repo.gitHubRepository.name
       /\ gitHubRepositories.rows[TargetKey].private = repo.gitHubRepository.private
       /\ gitHubRepositories.rows[TargetKey].fork = repo.gitHubRepository.fork
       /\ gitHubRepositories.rows[TargetKey].htmlURL = repo.gitHubRepository.htmlURL
       /\ gitHubRepositories.rows[TargetKey].ownerID
            = before.gitHubRepositories.rows[TargetKey].ownerID

\* C8 witness: an update that changed every field of the row, with an input
\* owner that is not the row's owner.
C8_Witness ==
    /\ EndedCommitted("updateGitHubRepository")
    /\ TargetKey \in Keys(before.gitHubRepositories)
    /\ before.gitHubRepositories.rows[TargetKey].name # repo.gitHubRepository.name
    /\ before.gitHubRepositories.rows[TargetKey].private # repo.gitHubRepository.private
    /\ before.gitHubRepositories.rows[TargetKey].htmlURL # repo.gitHubRepository.htmlURL
    /\ owners.rows[gitHubRepositories.rows[TargetKey].ownerID].login
         # repo.gitHubRepository.owner.login

\* An updateGitHubRepository call has ended, the store rejected nothing, its
\* argument carries a GitHubRepository, and the repositories row it names
\* exists.
UpdateOfRowEnded ==
    /\ Ended
    /\ op = "updateGitHubRepository"
    /\ outcome.error # "StoreError"
    /\ Truthy(repo.gitHubRepository)
    /\ repo.id \in Keys(before.repositories)

\* C9: updateGitHubRepository for a repository whose row has no existing
\* gitHubRepositories row completes without failure, having inserted a new
\* Owner row built from the input's owner and a gitHubRepositories row under a
\* newly generated key whose ownerID is that new Owner's key.
C9_UpdateWithoutExistingRowCompletes ==
    (/\ UpdateOfRowEnded
     /\ TargetKey \notin Keys(before.gitHubRepositories))
    => /\ outcome.status = "committed"
       /\ Keys(owners) = Keys(before.owners) \cup {AddKey(before.owners)}
       /\ owners.rows[AddKey(before.owners)] = OwnerRow(repo.gitHubRepository.owner)
       /\ Keys(gitHubRepositories)
            = Keys(before.gitHubRepositories) \cup {AddKey(before.gitHubRepositories)}
       /\ gitHubRepositories.rows[AddKey(before.gitHubRepositories)].ownerID
            = AddKey(before.owners)

\* C10: updateGitHubRepository turns a bare repositories row into a linked
\* one: after the call the row's gitHubRepositoryID is not null.
C10_UpdateLinksBareRepository ==
    (/\ UpdateOfRowEnded
     /\ TargetKey = NullID)
    => /\ outcome.status = "committed"
       /\ Linked(repositories.rows, repo.id)


\* C11: when updateGitHubRepository fails at any step, the three committed
\* tables are exactly what they were before the call.
C11_UpdateAbortLeavesTables ==
    EndedAborted("updateGitHubRepository") => Snapshot = before

\* C11 witness: the store rejected the call after the put of the new row.
C11_Witness ==
    /\ EndedAborted("updateGitHubRepository")
    /\ outcome.at = "update_106"
    /\ outcome.error = "StoreError"
    /\ before.gitHubRepositories.rows[TargetKey].name # repo.gitHubRepository.name

\* C16: updateGitHubRepository, committed or aborted, leaves the repositories
\* table as it was: the same rows with the same ids and paths.
C16_UpdateLeavesRepositories ==
    (Ended /\ op = "updateGitHubRepository") => repositories = before.repositories

\* C16 witness: a committed update of the hosted repository of a row whose
\* path is not the path the argument carries.
C16_Witness ==
    /\ EndedCommitted("updateGitHubRepository")
    /\ gitHubRepositories # before.gitHubRepositories
    /\ repositories.rows[repo.id].path # repo.path

\* C17: a repositories row whose gitHubRepositoryID is not null stays, with a
\* gitHubRepositoryID that is not null, through every step of every call.
C17_LinkedStaysLinked ==
    [][\A k \in Keys(repositories) :
           Linked(repositories.rows, k) =>
               (k \in Keys(repositories') /\ Linked(repositories'.rows, k))]_vars

\* C17 witness: a linked row after later calls: another add and then a list.
C17_Witness ==
    /\ EndedCommitted("getRepositories")
    /\ Keys(repositories) = {1, 2}
    /\ Linked(repositories.rows, 1)
    /\ ~Linked(repositories.rows, 2)
    /\ repositories.rows[1].path = repositories.rows[2].path

\* C18: every row of gitHubRepositories is referenced by the
\* gitHubRepositoryID of exactly one repositories row.
C18_OneRepositoryPerGitHubRepository ==
    \A g \in Keys(gitHubRepositories) :
        Cardinality({ k \in Keys(repositories) :
                        repositories.rows[k].gitHubRepositoryID = g }) = 1

\* C18 witness: two gitHubRepositories rows, one of them replaced by an
\* update.
C18_Witness ==
    /\ EndedCommitted("updateGitHubRepository")
    /\ Cardinality(Keys(gitHubRepositories)) = 2
    /\ gitHubRepositories # before.gitHubRepositories

\* C19: a committed addRepository of a repository without a GitHubRepository
\* leaves owners and gitHubRepositories as they were and adds one repositories
\* row whose gitHubRepositoryID is null; getRepositories, however it ends,
\* leaves all three tables as they were.
C19_RowsOnlyForHostedData ==
    /\ (EndedCommitted("addRepository") /\ ~Truthy(repo.gitHubRepository))
       => /\ owners = before.owners
          /\ gitHubRepositories = before.gitHubRepositories
          /\ Keys(repositories) = Keys(before.repositories) \cup {returned.id}
          /\ returned.id \notin Keys(before.repositories)
          /\ ~Linked(repositories.rows, returned.id)
    /\ (Ended /\ op = "getRepositories") => Snapshot = before

\* C19 witness: a repository without hosted data added after one with.
C19_Witness ==
    /\ EndedCommitted("addRepository")
    /\ ~Truthy(repo.gitHubRepository)
    /\ Cardinality(Keys(gitHubRepositories)) = 1
    /\ Cardinality(Keys(repositories)) = 2


\* C14: for a repositories row whose gitHubRepositoryID is null,
\* getRepositories makes the Repository of that row's id and path with no
\* hosted repository in the one step that takes the row up, a step that
\* issues no get on gitHubRepositories or owners; and the list it returns
\* holds that Repository for every such row.
C14_BareRowNeedsNoLookup ==
    [][/\ (/\ pc = "get_28"
           /\ idx <= Len(repos)
           /\ repos[idx].gitHubRepositoryID = NullID
           /\ pc' # "idle")
          => /\ pc' = "get_28"
             /\ idx' = idx + 1
             /\ inflatedRepos'
                  = Append(inflatedRepos, Repository(repos[idx].path, NULL, repos[idx].id))
             /\ gitHubRepository' = gitHubRepository
       /\ (pc = "get_42" /\ outcome'.status = "committed")
          => \A k \in Keys(repositories) :
                 ~Linked(repositories.rows, k) =>
                     \E i \in DOMAIN returned' :
                         returned'[i] = Repository(repositories.rows[k].path, NULL, k)
      ]_vars

\* C14 witness: a list that holds a repository without hosted data after one
\* with.
C14_Witness ==
    /\ EndedCommitted("getRepositories")
    /\ Len(returned) = 2
    /\ Truthy(returned[1].gitHubRepository)
    /\ returned[2] = Repository(repositories.rows[2].path, NULL, 2)


\* Whether some repositories row of the tables t references a
\* gitHubRepositories row that is missing, or one whose owner is missing.
Dangling(t) ==
    \E k \in Keys(t.repositories) :
        /\ Linked(t.repositories.rows, k)
        /\ LET g == t.repositories.rows[k].gitHubRepositoryID
           IN  \/ g \notin Keys(t.gitHubRepositories)
               \/ t.gitHubRepositories.rows[g].ownerID \notin Keys(t.owners)

\* C15: getRepositories on tables in which some repositories row references
\* a missing gitHubRepositories row, or one whose Owner row is missing, fails
\* as a whole and returns no list.
C15_ListFailsOnMissingRow ==
    (Ended /\ op = "getRepositories" /\ Dangling(before))
    => (outcome.status = "aborted" /\ returned = NULL)

\* C15 witness: the first row inflates, the second references a hosted
\* repository whose owner is missing, and the call fails there.
C15_Witness ==
    /\ EndedAborted("getRepositories")
    /\ outcome.error = "TypeError"
    /\ outcome.at = "get_32"
    /\ Keys(repositories) = {1, 2}
    /\ Linked(repositories.rows, 1)
    /\ repositories.rows[1].gitHubRepositoryID \in Keys(gitHubRepositories)
    /\ gitHubRepositories.rows[repositories.rows[1].gitHubRepositoryID].ownerID
         \in Keys(owners)


\* Whether the list l is the repositories of the tables t, row for row, each
\* inflated from the rows it references in t.
ListOfTables(l, t) ==
    /\ Len(l) = Cardinality(Keys(t.repositories))
    /\ \A k \in Keys(t.repositories) :
           \E i \in DOMAIN l :
               /\ l[i].id = k
               /\ l[i].path = t.repositories.rows[k].path
               /\ IF Linked(t.repositories.rows, k)
                  THEN LET g == t.gitHubRepositories.rows[
                                    t.repositories.rows[k].gitHubRepositoryID]
                       IN  MatchesRows(l[i], g, t.owners.rows[g.ownerID])
                  ELSE l[i].gitHubRepository = NULL

\* C12: with addRepository and updateGitHubRepository of another caller
\* running and committing in between its steps, getRepositories returns the
\* repositories of one committed state, the tables as they were when its
\* transaction started, and fails only when the store rejects a primitive.
C12_ListReadsOneCommittedState ==
    (Ended /\ op = "getRepositories")
    => /\ outcome.error # "StoreError" => outcome.status = "committed"
       /\ outcome.status = "committed" => ListOfTables(returned, before)

\* C12 witness: an update of the other caller committed while the list was
\* running, and changed a row the list returns.
C12_Witness ==
    /\ EndedCommitted("getRepositories")
    /\ other.pc = "idle"
    /\ other.op = "updateGitHubRepository"
    /\ other.outcome.status = "committed"
    /\ other.before.gitHubRepositories = before.gitHubRepositories
    /\ gitHubRepositories # before.gitHubRepositories
    /\ Len(returned) = 2

\* Two addRepository calls, one of each caller, have committed; their owner
\* logins are equal ignoring case, and the earlier found no such Owner row.
TwoAddsCommitted ==
    /\ EndedCommitted("addRepository")
    /\ other.pc = "idle"
    /\ other.op = "addRepository"
    /\ other.outcome.status = "committed"
    /\ EqualsIgnoreCase(repo.gitHubRepository.owner.login,
                        other.repo.gitHubRepository.owner.login)
    /\ \/ WhereLoginEqualsIgnoreCase(before.owners,
                                     repo.gitHubRepository.owner.login) = {}
       \/ WhereLoginEqualsIgnoreCase(other.before.owners,
                                     repo.gitHubRepository.owner.login) = {}

OtherTargetKey ==
    IF other.repo.id \in Keys(other.before.repositories)
    THEN other.before.repositories.rows[other.repo.id].gitHubRepositoryID
    ELSE NullID

\* The other caller's updateGitHubRepository has committed on an existing
\* gitHubRepositories row, and the list in focus started on tables that hold
\* the row as that update put it.
ListFollowsUpdate ==
    /\ EndedCommitted("getRepositories")
    /\ other.pc = "idle"
    /\ other.op = "updateGitHubRepository"
    /\ other.outcome.status = "committed"
    /\ OtherTargetKey \in Keys(other.before.gitHubRepositories)
    /\ OtherTargetKey \in Keys(before.gitHubRepositories)
    /\ before.gitHubRepositories.rows[OtherTargetKey].name
         = other.repo.gitHubRepository.name
    /\ before.gitHubRepositories.rows[OtherTargetKey].fork
         = other.repo.gitHubRepository.fork
    /\ before.gitHubRepositories.rows[OtherTargetKey].private
         = other.repo.gitHubRepository.private
    /\ before.gitHubRepositories.rows[OtherTargetKey].htmlURL
         = other.repo.gitHubRepository.htmlURL

\* The Owner the row referenced before the other caller's update.
OwnerBeforeUpdate ==
    LET o == other.before.owners.rows[
                 other.before.gitHubRepositories.rows[OtherTargetKey].ownerID]
    IN  Owner(o.login, o.endpoint)

\* C20: a committed updateGitHubRepository on an existing gitHubRepositories
\* row leaves the owners table as it was and the row's ownerID as it was,
\* whatever owner the argument carries; a getRepositories that follows
\* returns the repository with the login and endpoint of that old Owner.
C20_UpdateIgnoresOwnerOfArgument ==
    /\ (/\ EndedCommitted("updateGitHubRepository")
        /\ TargetKey \in Keys(before.gitHubRepositories))
       => /\ owners = before.owners
          /\ gitHubRepositories.rows[TargetKey].ownerID
               = before.gitHubRepositories.rows[TargetKey].ownerID
    /\ ListFollowsUpdate
       => \E i \in DOMAIN returned :
              /\ returned[i].id = other.repo.id
              /\ Truthy(returned[i].gitHubRepository)
              /\ returned[i].gitHubRepository.owner = OwnerBeforeUpdate

\* C20 witness: the argument's owner has another login than the stored one,
\* and the list returns the stored one.
C20_Witness ==
    /\ ListFollowsUpdate
    /\ other.repo.gitHubRepository.owner # OwnerBeforeUpdate
    /\ ~EqualsIgnoreCase(other.repo.gitHubRepository.owner.login,
                         OwnerBeforeUpdate.login)
    /\ returned[1].gitHubRepository.fork
    /\ returned[1].gitHubRepository.owner = OwnerBeforeUpdate

====
